---- MODULE Spec2Model ----
(***************************************************************************)
(* The iga automaton engine (src/iga/engine.py): a toroidal grid of cells  *)
(* that are DEAD, ALIVE or in SUPERPOSITION, a list of entangled pairs of  *)
(* Points, the constructor, the indexed access, the operations link,       *)
(* unlink and iterate, and the driver loop.                                *)
(***************************************************************************)
EXTENDS Integers, Sequences, FiniteSets, TLC

\* ---------------------------------------------------------------- bounds
MaxWidth == 4
MaxHeight == 3
MaxCells == 12
MaxSteps == 2
MaxCalls == 1
MaxTwinCells == 8
MaxTwinAlive == 4
StreamLen == 4
MaxApiCells == 6
MaxTurns == 2
MaxCtorDim == 2
MaxCtorRows == 2
MaxLoopCells == 9
MaxLoopIter == 3
MaxLoopSteps == 3

\* ------------------------------------------------------------- CellState
DEAD == 0
ALIVE == 1
SUPERPOSITION == 2

CellState == {DEAD, ALIVE, SUPERPOSITION}

VARIABLES
    width,          \* Engine.width
    height,         \* Engine.height
    cells,          \* Engine.cells: height rows of width cells (rows and columns from 1)
    entangled,      \* Engine.entangled: list of pairs <<Point, Point>>
    max_iter,       \* Engine.config.max_iter
    prev_cells,     \* the cell array before the last operation (iterate's current_cells)
    prev_entangled, \* the entangled list before the last operation
    prev_max_iter,  \* config.max_iter before the last operation
    printed,        \* the last iterate printed "Stable state reached"
    last_op,        \* the last operation and its arguments
    steps,          \* number of operations so far
    calls,          \* number of link/unlink calls made by the caller so far
    twin,           \* a second Engine built from an equal Config, once constructed
    rng,            \* the random module's generator: values drawn since random.seed
    stream,         \* what the generator yields for config.seed after the constructor's draws
    runs,           \* runs[e][k]: cells and entangled of engine e after its k-th iterate
    args,           \* the arguments of the constructor call
    raised,         \* the exception the constructor raised, "" if none
    iterations,     \* the counter of Engine.loop
    pc              \* "call", "failed", "ready", "loop" or "returned"

vars == <<width, height, cells, entangled, max_iter, prev_cells,
          prev_entangled, prev_max_iter, printed, last_op, steps, calls,
          twin, rng, stream, runs, args, raised, iterations, pc>>

twin_vars == <<twin, rng, stream, runs>>

driver_vars == <<args, raised, iterations, pc>>

\* ------------------------------------------------------------------ Point
Point(x, y) == [x |-> x, y |-> y]

\* membership under an equality of Points that compares x only
PointIn_same_column(p, entanglement) ==
    p.x = entanglement[1].x \/ p.x = entanglement[2].x

\* `p in entanglement` for a 2-tuple of Points: equality on unwrapped x and y
PointIn(p, entanglement) == p = entanglement[1] \/ p = entanglement[2]

\* the grid cell a Point denotes: its coordinates modulo width and height
Wrap(p) == Point(p.x % width, p.y % height)

\* ------------------------------------------------------- indexed access
GetItem(c, y, x) == c[(y % height) + 1][(x % width) + 1]

\* the assignment without the modulo: row y and column x as given
SetItem_unwrapped(c, y, x, value) ==
    [c EXCEPT ![y + 1][x + 1] = value]

SetItem(c, y, x, value) ==
    [c EXCEPT ![(y % height) + 1][(x % width) + 1] = value]

\* the eight offsets <<dx, dy>> in the order NW, N, NE, W, E, SW, S, SE
Offsets ==
    << <<-1, -1>>, <<0, -1>>, <<1, -1>>,
       <<-1, 0>>,             <<1, 0>>,
       <<-1, 1>>,  <<0, 1>>,  <<1, 1>> >>

\* each neighbour's state, read through the wrapping index, with its
\* Point, whose coordinates are NOT wrapped
get_neighbours(c, x, y) ==
    [i \in 1..8 |->
        [state |-> GetItem(c, y + Offsets[i][2], x + Offsets[i][1]),
         point |-> Point(x + Offsets[i][1], y + Offsets[i][2])]]

AliveCount(neighbours) ==
    Cardinality({i \in 1..8 : neighbours[i].state = ALIVE})

\* ------------------------------------------------------------ link, unlink
\* link checking only its first Point against the list
link_first_only(ent, x1, y1, x2, y2) ==
    IF \E i \in 1..Len(ent) : PointIn(Point(x1, y1), ent[i])
    THEN ent
    ELSE IF <<x1, y1>> = <<x2, y2>>
         THEN ent
         ELSE Append(ent, <<Point(x1, y1), Point(x2, y2)>>)

\* link storing Point(x1, y2) for its second Point
link_first_column(ent, x1, y1, x2, y2) ==
    IF \E i \in 1..Len(ent) :
           PointIn(Point(x1, y1), ent[i]) \/ PointIn(Point(x2, y2), ent[i])
    THEN ent
    ELSE IF <<x1, y1>> = <<x2, y2>>
         THEN ent
         ELSE Append(ent, <<Point(x1, y1), Point(x1, y2)>>)

link(ent, x1, y1, x2, y2) ==
    IF \E i \in 1..Len(ent) :
           PointIn(Point(x1, y1), ent[i]) \/ PointIn(Point(x2, y2), ent[i])
    THEN ent
    ELSE IF <<x1, y1>> = <<x2, y2>>
         THEN ent
         ELSE Append(ent, <<Point(x1, y1), Point(x2, y2)>>)

\* list.remove: drops the first element equal to the pair
RemoveFirst(ent, pair) ==
    LET i == CHOOSE j \in 1..Len(ent) :
                 ent[j] = pair /\ \A k \in 1..(j - 1) : ent[k] # pair
    IN  SubSeq(ent, 1, i - 1) \o SubSeq(ent, i + 1, Len(ent))

unlink(ent, x1, y1, x2, y2) ==
    LET pair == <<Point(x1, y1), Point(x2, y2)>>
    IN  IF \E i \in 1..Len(ent) : ent[i] = pair
        THEN RemoveFirst(ent, pair)
        ELSE ent

\* ----------------------------------------------------------------- iterate
\* a draw over a list that still holds SUPERPOSITION
choice_superposed(bit) == IF bit THEN ALIVE ELSE SUPERPOSITION

\* random.choice([ALIVE, DEAD]) for one draw of the generator
choice(bit) == IF bit THEN ALIVE ELSE DEAD

\* the loop over the neighbours of a cell born with 4 alive neighbours
\* st = [next |-> next_cells, ent |-> self.entangled, bits |-> draws left]
RECURSIVE BirthScan(_, _, _, _, _)
BirthScan(i, x, y, neighbours, st) ==
    IF i > 8 THEN st
    ELSE IF neighbours[i].state = ALIVE
         THEN LET n == neighbours[i].point
                  linked == link(st.ent, x, y, n.x, n.y)
                  next1 == SetItem(st.next, y, x, SUPERPOSITION)
                  next2 == SetItem(next1, n.y, n.x, SUPERPOSITION)
              IN  BirthScan(i + 1, x, y, neighbours,
                            [st EXCEPT !.ent = linked, !.next = next2])
         ELSE BirthScan(i + 1, x, y, neighbours, st)

\* the loop over self.entangled of a collapsing cell; the list iterator
\* advances by one each round while unlink shortens the list under it
RECURSIVE CollapseScan(_, _, _, _, _)
CollapseScan(i, x, y, cur, st) ==
    IF i > Len(st.ent) THEN st
    ELSE LET entanglement == st.ent[i] IN
         IF PointIn(Point(x, y), entanglement)
         THEN LET other_cell == IF entanglement[1] # Point(x, y)
                                THEN entanglement[1] ELSE entanglement[2]
                  other_cell_state == GetItem(cur, other_cell.y, other_cell.x)
                  next1 == IF other_cell_state = SUPERPOSITION
                           THEN SetItem(st.next, other_cell.y, other_cell.x,
                                        IF GetItem(st.next, y, x) = ALIVE
                                        THEN DEAD ELSE ALIVE)
                           ELSE st.next
                  ent1 == unlink(st.ent, x, y, other_cell.x, other_cell.y)
              IN  CollapseScan(i + 1, x, y, cur,
                               [st EXCEPT !.next = next1, !.ent = ent1])
         ELSE CollapseScan(i + 1, x, y, cur, st)

\* the body of the two loops for one cell (x, y)
VisitCell(x, y, cur, st) ==
    LET neighbours == get_neighbours(cur, x, y)
        alive_neighbours == AliveCount(neighbours)
        me == GetItem(cur, y, x)
    IN  IF me = DEAD /\ alive_neighbours \in {3, 4}
        THEN LET born == [st EXCEPT !.next = SetItem(@, y, x, ALIVE)]
             IN  IF alive_neighbours = 4
                 THEN BirthScan(1, x, y, neighbours, born)
                 ELSE born
        ELSE IF me = ALIVE /\ (alive_neighbours > 5 \/ alive_neighbours < 2)
        THEN [st EXCEPT !.next = SetItem(@, y, x, DEAD)]
        ELSE IF me = SUPERPOSITION /\ alive_neighbours > 0
        THEN LET collapsed ==
                     [st EXCEPT !.next = SetItem(@, y, x, choice(Head(st.bits))),
                                !.bits = Tail(@)]
             IN  CollapseScan(1, x, y, cur, collapsed)
        ELSE st

\* the pass without the copy: every cell reads the array being written
\* (and a draw is there for every cell that finds itself observed)
RECURSIVE CellPass_inplace(_, _, _)
CellPass_inplace(k, cur, st) ==
    IF k >= width * height THEN st
    ELSE CellPass_inplace(k + 1, cur,
                          VisitCell(k % width, k \div width, st.next,
                                    [st EXCEPT !.bits = Append(@, TRUE)]))

\* the row-major pass: cell k is (x, y) = (k % width, k \div width)
RECURSIVE CellPass(_, _, _)
CellPass(k, cur, st) ==
    IF k >= width * height THEN st
    ELSE CellPass(k + 1, cur, VisitCell(k % width, k \div width, cur, st))

\* the cells that draw from the random source in one pass over cur
Observed(cur) ==
    {k \in 0..(width * height - 1) :
        /\ GetItem(cur, k \div width, k % width) = SUPERPOSITION
        /\ AliveCount(get_neighbours(cur, k % width, k \div width)) > 0}

\* next_cells and self.entangled after the pass, drawing bits in order
iterate(cur, ent, bits) == CellPass(0, cur, [next |-> cur, ent |-> ent, bits |-> bits])

\* the stability test comparing the two lists by identity: a deep copy is never the original
IsStable_identity(cur, next) == FALSE

\* the stability test of iterate: self.cells == next_cells
IsStable(cur, next) == cur = next

\* --------------------------------------------------------------- __init__
\* cells sampled ALIVE or DEAD for every cell; no pairs
InitialGrids(w, h) == [1..h -> [1..w -> {DEAD, ALIVE}]]

\* config.max_iter as the command line leaves it: unbounded
MaxIterChoices == {-1}

NoPoint == Point(0, 0)

\* no second Engine yet; its Config will equal the first engine's
NoTwin == [built |-> FALSE, cells |-> <<>>, entangled |-> <<>>, max_iter |-> -1]

\* the constructor call is over and its arguments are gone
NoArgs == <<>>

\* a constructed engine on which no loop runs
Constructed ==
    /\ args = NoArgs
    /\ raised = ""
    /\ iterations = 0
    /\ pc = "ready"

Init ==
    /\ width \in 1..MaxWidth
    /\ height \in 1..MaxHeight
    /\ width * height <= MaxCells
    /\ cells \in InitialGrids(width, height)
    /\ entangled = <<>>
    /\ max_iter \in MaxIterChoices
    /\ prev_cells = cells
    /\ prev_entangled = <<>>
    /\ prev_max_iter = max_iter
    /\ printed = FALSE
    /\ last_op = [op |-> "init", a |-> NoPoint, b |-> NoPoint]
    /\ steps = 0
    /\ calls = 0
    /\ twin = NoTwin
    /\ rng = width * height
    /\ stream = <<>>
    /\ runs = << <<>>, <<>> >>
    /\ Constructed

\* ---------------------------------------------------------------- actions
\* one call of iterate on this engine with the draws bits
Step(bits) ==
    /\ \E r \in {iterate(cells, entangled, bits)} :
          /\ cells' = r.next
          /\ entangled' = r.ent
          /\ printed' = IsStable(cells, r.next)
          /\ max_iter' = IF IsStable(cells, r.next) THEN 0 ELSE max_iter
    /\ prev_cells' = cells
    /\ prev_entangled' = entangled
    /\ prev_max_iter' = max_iter
    /\ last_op' = [op |-> "iterate", a |-> NoPoint, b |-> NoPoint]
    /\ steps' = steps + 1
    /\ UNCHANGED <<width, height, calls>>

\* iterate with every outcome of the random source
Iterate ==
    /\ steps < MaxSteps
    /\ \E bits \in [1..Cardinality(Observed(cells)) -> BOOLEAN] : Step(bits)
    /\ UNCHANGED twin_vars
    /\ UNCHANGED driver_vars

\* the Points a caller passes to link: a cell, the same cell under
\* coordinates one turn around the torus, and a second cell
CallFirst == {Point(0, 0), Point(width, height)}
CallSecond == {Point(0, 0), Point(1, 1)}

\* the pairs a caller passes to unlink: a pair of the list as stored or
\* reversed, or a pair of the Points above
UnlinkArgs ==
    {<<entangled[i][1], entangled[i][2]>> : i \in 1..Len(entangled)}
    \cup {<<entangled[i][2], entangled[i][1]>> : i \in 1..Len(entangled)}
    \cup {<<Point(0, 0), Point(1, 1)>>}

Link ==
    /\ steps < MaxSteps
    /\ calls < MaxCalls
    /\ \E a \in CallFirst, b \in CallSecond :
          /\ entangled' = link(entangled, a.x, a.y, b.x, b.y)
          /\ last_op' = [op |-> "link", a |-> a, b |-> b]
    /\ prev_cells' = cells
    /\ prev_entangled' = entangled
    /\ prev_max_iter' = max_iter
    /\ steps' = steps + 1
    /\ calls' = calls + 1
    /\ UNCHANGED <<width, height, cells, max_iter, printed>>
    /\ UNCHANGED twin_vars
    /\ UNCHANGED driver_vars

Unlink ==
    /\ steps < MaxSteps
    /\ calls < MaxCalls
    /\ \E pair \in UnlinkArgs :
          /\ entangled' = unlink(entangled, pair[1].x, pair[1].y, pair[2].x, pair[2].y)
          /\ last_op' = [op |-> "unlink", a |-> pair[1], b |-> pair[2]]
    /\ prev_cells' = cells
    /\ prev_entangled' = entangled
    /\ prev_max_iter' = max_iter
    /\ steps' = steps + 1
    /\ calls' = calls + 1
    /\ UNCHANGED <<width, height, cells, max_iter, printed>>
    /\ UNCHANGED twin_vars
    /\ UNCHANGED driver_vars

Next == Iterate \/ Link \/ Unlink

Spec == Init /\ [][Next]_vars

\* ------------------------------------------------ two engines, one generator
\* random is the module-level generator: both engines seed it and draw from it.
\* The constructor seeds it with config.seed and draws width * height values,
\* which give the same array for the same seed; the values after those are
\* stream[1], stream[2], ...
Draw(k) == [i \in 1..k |-> stream[rng - width * height + i]]

TwinGrids(w, h) ==
    {c \in InitialGrids(w, h) :
        Cardinality({p \in (1..h) \X (1..w) : c[p[1]][p[2]] = ALIVE}) <= MaxTwinAlive}

TwinInit ==
    /\ width \in 1..MaxWidth
    /\ height \in 1..MaxHeight
    /\ width * height <= MaxTwinCells
    /\ cells \in TwinGrids(width, height)
    /\ entangled = <<>>
    /\ max_iter \in MaxIterChoices
    /\ prev_cells = cells
    /\ prev_entangled = <<>>
    /\ prev_max_iter = max_iter
    /\ printed = FALSE
    /\ last_op = [op |-> "init", a |-> NoPoint, b |-> NoPoint]
    /\ steps = 0
    /\ calls = 0
    /\ twin = NoTwin
    /\ rng = width * height
    /\ stream \in [1..StreamLen -> BOOLEAN]
    /\ runs = << <<[cells |-> cells, entangled |-> <<>>]>>, <<>> >>
    /\ Constructed

\* Engine(config) for the second engine: random.seed(config.seed) and the
\* same width * height draws, so the same array as the first engine got
ConstructTwin ==
    /\ ~twin.built
    /\ twin' = [twin EXCEPT !.built = TRUE, !.cells = runs[1][1].cells]
    /\ rng' = width * height
    /\ runs' = [runs EXCEPT ![2] = <<[cells |-> runs[1][1].cells, entangled |-> <<>>]>>]
    /\ UNCHANGED <<width, height, cells, entangled, max_iter, prev_cells,
                   prev_entangled, prev_max_iter, printed, last_op, steps, calls, stream>>
    /\ UNCHANGED driver_vars

\* iterate on the first engine, drawing from the shared generator
IterateSeeded ==
    /\ steps < MaxSteps
    /\ rng - width * height + Cardinality(Observed(cells)) <= StreamLen
    /\ Step(Draw(Cardinality(Observed(cells))))
    /\ rng' = rng + Cardinality(Observed(cells))
    /\ runs' = [runs EXCEPT ![1] = Append(@, [cells |-> cells', entangled |-> entangled'])]
    /\ UNCHANGED <<twin, stream>>
    /\ UNCHANGED driver_vars

\* iterate on the second engine, drawing from the shared generator
IterateTwin ==
    /\ twin.built
    /\ Len(runs[2]) <= MaxSteps
    /\ rng - width * height + Cardinality(Observed(twin.cells)) <= StreamLen
    /\ \E r \in {iterate(twin.cells, twin.entangled, Draw(Cardinality(Observed(twin.cells))))} :
          /\ twin' = [twin EXCEPT !.cells = r.next, !.entangled = r.ent,
                                  !.max_iter = IF IsStable(twin.cells, r.next) THEN 0 ELSE @]
          /\ runs' = [runs EXCEPT ![2] = Append(@, [cells |-> r.next, entangled |-> r.ent])]
    /\ rng' = rng + Cardinality(Observed(twin.cells))
    /\ UNCHANGED <<width, height, cells, entangled, max_iter, prev_cells,
                   prev_entangled, prev_max_iter, printed, last_op, steps, calls, stream>>
    /\ UNCHANGED driver_vars

TwinNext == ConstructTwin \/ IterateSeeded \/ IterateTwin

TwinSpec == TwinInit /\ [][TwinNext]_vars

\* ------------------------------------------------- the indexed assignment
\* an array that passes the constructor's checks of rows and columns, taking
\* the transposed array for a valid one as well
SuppliedGrids_transposed(w, h) ==
    [1..h -> [1..w -> CellState]] \cup [1..w -> [1..h -> CellState]]

\* the arrays a caller can supply to the constructor without an error:
\* height rows of width cells of any CellState
SuppliedGrids(w, h) == [1..h -> [1..w -> CellState]]

\* an Engine built from a supplied array
SuppliedInit ==
    /\ width \in 1..MaxWidth
    /\ height \in 1..MaxHeight
    /\ width * height <= MaxApiCells
    /\ cells \in SuppliedGrids(width, height)
    /\ entangled = <<>>
    /\ max_iter \in MaxIterChoices
    /\ prev_cells = cells
    /\ prev_entangled = <<>>
    /\ prev_max_iter = max_iter
    /\ printed = FALSE
    /\ last_op = [op |-> "init", a |-> NoPoint, b |-> NoPoint]
    /\ steps = 0
    /\ calls = 0
    /\ twin = NoTwin
    /\ rng = 0
    /\ stream = <<>>
    /\ runs = << <<>>, <<>> >>
    /\ Constructed

\* the turns around the torus a caller adds to a key
Turns == {0 - MaxTurns, 0, 1}

\* engine[y + k * height, x + k * width] = value, for a corner cell (x, y)
SetCell ==
    /\ steps < MaxSteps
    /\ calls < MaxCalls
    /\ \E x \in {0, width - 1}, y \in {0, height - 1}, k \in Turns, value \in CellState :
          /\ cells' = SetItem(cells, y + k * height, x + k * width, value)
          /\ last_op' = [op |-> "set", a |-> Point(x, y), b |-> NoPoint,
                         k |-> k, value |-> value]
    /\ prev_cells' = cells
    /\ prev_entangled' = entangled
    /\ prev_max_iter' = max_iter
    /\ steps' = steps + 1
    /\ calls' = calls + 1
    /\ UNCHANGED <<width, height, entangled, max_iter, printed>>
    /\ UNCHANGED twin_vars
    /\ UNCHANGED driver_vars

ApiNext == Iterate \/ Link \/ Unlink \/ SetCell

ApiSpec == SuppliedInit /\ [][ApiNext]_vars

\* ------------------------------------------------------------ __post_init__
\* an argument left at its default None, and an argument that was passed
None == <<>>
Some(v) == <<v>>

\* `o or default` takes the default for a falsy o: None and 0 for an int
\* argument, None and [] for a list argument
FalsyInt(o) == o = None \/ o[1] = 0
FalsyList(o) == o = None \/ o[1] = <<>>

\* the rows and the arrays a caller can pass as cells, the empty list and
\* ragged arrays included
CtorRows == UNION {[1..n -> {DEAD, ALIVE}] : n \in 0..MaxCtorDim}
CtorArrays == UNION {[1..n -> CtorRows] : n \in 0..MaxCtorRows}

\* widths and heights a caller or a Config can give
CtorDims == (0 - 1)..MaxCtorDim

\* the calls Engine(config=..., width=..., height=..., cells=...)
CtorArgs ==
    [config : {None} \cup {Some(c) : c \in [width : CtorDims, height : CtorDims]},
     width  : {None} \cup {Some(d) : d \in CtorDims},
     height : {None} \cup {Some(d) : d \in CtorDims},
     cells  : {None} \cup {Some(c) : c \in CtorArrays}]

\* the dataclass __init__ has stored the arguments in the fields and is
\* about to call __post_init__
CtorInit ==
    /\ args \in CtorArgs
    /\ width = args.width
    /\ height = args.height
    /\ cells = args.cells
    /\ entangled = None
    /\ max_iter \in MaxIterChoices
    /\ prev_cells = cells
    /\ prev_entangled = entangled
    /\ prev_max_iter = max_iter
    /\ printed = FALSE
    /\ last_op = [op |-> "call", a |-> NoPoint, b |-> NoPoint]
    /\ steps = 0
    /\ calls = 0
    /\ twin = NoTwin
    /\ rng = 0
    /\ stream = <<>>
    /\ runs = << <<>>, <<>> >>
    /\ raised = ""
    /\ iterations = 0
    /\ pc = "call"

\* the checks at the end of __post_init__ on the fields w, h, c
Rejects(w, h, c) ==
    \/ w <= 0
    \/ h <= 0
    \/ Len(c) # h
    \/ \E r \in 1..Len(c) : Len(c[r]) # w

\* __post_init__: self.config.seed is read first; then each falsy field is
\* replaced (width and height by the Config's, cells by a sampled array);
\* then the checks run
PostInit ==
    /\ pc = "call"
    /\ IF args.config = None
       THEN /\ raised' = "AttributeError"
            /\ pc' = "failed"
            /\ UNCHANGED <<width, height, cells, entangled, rng>>
       ELSE LET w == IF FalsyInt(args.width) THEN args.config[1].width ELSE args.width[1]
                h == IF FalsyInt(args.height) THEN args.config[1].height ELSE args.height[1]
            IN  /\ width' = w
                /\ height' = h
                /\ entangled' = <<>>
                /\ IF FalsyList(args.cells)
                   THEN /\ cells' \in InitialGrids(w, h)
                        /\ rng' = IF w > 0 /\ h > 0 THEN w * h ELSE 0
                   ELSE /\ cells' = args.cells[1]
                        /\ rng' = 0
                /\ raised' = IF Rejects(w, h, cells') THEN "ValueError" ELSE ""
                /\ pc' = IF Rejects(w, h, cells') THEN "failed" ELSE "ready"
    /\ prev_cells' = cells
    /\ prev_entangled' = entangled
    /\ prev_max_iter' = max_iter
    /\ last_op' = [op |-> "init", a |-> NoPoint, b |-> NoPoint]
    /\ UNCHANGED <<max_iter, printed, steps, calls, twin, stream, runs, args, iterations>>

CtorNext == PostInit

CtorSpec == CtorInit /\ [][CtorNext]_vars

\* -------------------------------------------------------------------- loop
\* a loop condition that takes every max_iter of 0 or less for unbounded
loop_condition_nonpositive(n, limit) == n < limit \/ limit <= 0

\* the condition of the while loop: iterations < max_iter or max_iter == -1
loop_condition(n, limit) == n < limit \/ limit = -1

\* config.max_iter as a caller of loop can set it: negative, 0 or positive
LoopMaxIterChoices == (0 - 2)..MaxLoopIter

\* a constructed engine whose loop is about to be called
LoopInit ==
    /\ width \in 1..MaxWidth
    /\ height \in 1..MaxHeight
    /\ width * height <= MaxLoopCells
    /\ cells \in InitialGrids(width, height)
    /\ entangled = <<>>
    /\ max_iter \in LoopMaxIterChoices
    /\ prev_cells = cells
    /\ prev_entangled = <<>>
    /\ prev_max_iter = max_iter
    /\ printed = FALSE
    /\ last_op = [op |-> "init", a |-> NoPoint, b |-> NoPoint]
    /\ steps = 0
    /\ calls = 0
    /\ twin = NoTwin
    /\ rng = width * height
    /\ stream = <<>>
    /\ runs = << <<>>, <<>> >>
    /\ Constructed

\* loop is called: iterations = 0
LoopEnter ==
    /\ pc = "ready"
    /\ pc' = "loop"
    /\ iterations' = 0
    /\ UNCHANGED <<width, height, cells, entangled, max_iter, prev_cells,
                   prev_entangled, prev_max_iter, printed, last_op, steps, calls>>
    /\ UNCHANGED <<args, raised>>
    /\ UNCHANGED twin_vars

\* one round of the while loop: display, iterate, sleep, iterations += 1
LoopBody ==
    /\ pc = "loop"
    /\ iterations < MaxLoopSteps
    /\ loop_condition(iterations, max_iter)
    /\ \E bits \in [1..Cardinality(Observed(cells)) -> BOOLEAN] : Step(bits)
    /\ iterations' = iterations + 1
    /\ UNCHANGED <<args, raised, pc>>
    /\ UNCHANGED twin_vars

\* the while condition is false: loop returns
LoopReturn ==
    /\ pc = "loop"
    /\ ~loop_condition(iterations, max_iter)
    /\ pc' = "returned"
    /\ UNCHANGED <<width, height, cells, entangled, max_iter, prev_cells,
                   prev_entangled, prev_max_iter, printed, last_op, steps, calls>>
    /\ UNCHANGED <<args, raised, iterations>>
    /\ UNCHANGED twin_vars

LoopNext == LoopEnter \/ LoopBody \/ LoopReturn

LoopSpec == LoopInit /\ [][LoopNext]_vars

\* ------------------------------------------- vocabulary of the properties
Coords == {Point(x, y) : x \in 0..(width - 1), y \in 0..(height - 1)}

StateAt(c, p) == GetItem(c, p.y, p.x)

AliveNeighbours(c, p) == AliveCount(get_neighbours(c, p.x, p.y))

LastIterate == last_op.op = "iterate"

Range(seq) == {seq[i] : i \in 1..Len(seq)}

\* the pairs of the list that the last operation added
NewPairs == {e \in Range(entangled) : e \notin Range(prev_entangled)}

\* the cells that were DEAD with exactly 4 ALIVE neighbours before the last iterate
BornWithFour ==
    {p \in Coords : StateAt(prev_cells, p) = DEAD /\ AliveNeighbours(prev_cells, p) = 4}

\* the first neighbour of p, in the order of get_neighbours, that was ALIVE
FirstAlive(c, p) ==
    LET neighbours == get_neighbours(c, p.x, p.y)
        i == CHOOSE j \in 1..8 :
                 /\ neighbours[j].state = ALIVE
                 /\ \A k \in 1..(j - 1) : neighbours[k].state # ALIVE
    IN  neighbours[i].point

AllDead(c) == \A p \in Coords : StateAt(c, p) = DEAD

\* p was in SUPERPOSITION with an ALIVE neighbour in the array c: the pass
\* over c collapses it
Collapsing(c, p) == StateAt(c, p) = SUPERPOSITION /\ AliveNeighbours(c, p) > 0

\* the pairs of the list ent that have the grid cell p as a member
PairsOf(ent, p) == {e \in Range(ent) : Wrap(e[1]) = p \/ Wrap(e[2]) = p}

\* the grid cells paired with p by the pair e
Partners(e, p) ==
    {Wrap(e[i]) : i \in {j \in 1..2 : Wrap(e[3 - j]) = p}}

\* q is visited before p in the row-major pass
Before(q, p) == q.y < p.y \/ (q.y = p.y /\ q.x < p.x)

\* the grid cells that are neighbours of p
NeighbourCells(p) == {Wrap(get_neighbours(cells, p.x, p.y)[i].point) : i \in 1..8}

\* ---------------------------------------------------------------------- C1
\* C1: after an iterate, the two cells of every pair that was active before
\* it, both in SUPERPOSITION and each with an ALIVE neighbour before it, are
\* ALIVE or DEAD and in opposite states.
C1_AntiCorrelated ==
    LastIterate =>
        \A e \in Range(prev_entangled) :
            ( /\ Wrap(e[1]) # Wrap(e[2])
              /\ StateAt(prev_cells, e[1]) = SUPERPOSITION
              /\ StateAt(prev_cells, e[2]) = SUPERPOSITION
              /\ AliveNeighbours(prev_cells, e[1]) > 0
              /\ AliveNeighbours(prev_cells, e[2]) > 0 )
            => /\ StateAt(cells, e[1]) \in {ALIVE, DEAD}
               /\ StateAt(cells, e[2]) \in {ALIVE, DEAD}
               /\ StateAt(cells, e[1]) # StateAt(cells, e[2])

\* ---------------------------------------------------------------------- C2
\* C2: after an iterate, no pair of the list has as a member the Point of a
\* cell that was in SUPERPOSITION with an ALIVE neighbour before it (a cell
\* that collapsed), whether the Point is the first or the second member.
C2_CollapseUnlinks ==
    LastIterate =>
        \A p \in Coords :
            (StateAt(prev_cells, p) = SUPERPOSITION /\ AliveNeighbours(prev_cells, p) > 0)
            => \A e \in Range(entangled) : ~PointIn(p, e)

\* ---------------------------------------------------------------------- C3
\* C3: in every reachable state no grid cell (a member's coordinates taken
\* modulo width and height) is a member of two distinct pairs of the list.
C3_Exclusive ==
    \A i, j \in 1..Len(entangled) :
        i # j => {Wrap(entangled[i][1]), Wrap(entangled[i][2])}
                 \cap {Wrap(entangled[j][1]), Wrap(entangled[j][2])} = {}

\* ---------------------------------------------------------------------- C4
\* C4: two engines built from the same configuration have the same cell
\* array and the same entangled list after the same number of iterate calls,
\* however their constructions and iterate calls are interleaved.
C4_Deterministic ==
    \A k \in 1..Len(runs[1]) : k <= Len(runs[2]) => runs[1][k] = runs[2][k]

\* ---------------------------------------------------------------------- C5
\* C5: a cell born with exactly 4 ALIVE neighbours for which the iterate
\* created no pair is ALIVE, not in SUPERPOSITION, after the iterate.
C5_FailedLinkStaysAlive ==
    LastIterate =>
        \A p \in BornWithFour :
            (\A e \in NewPairs : ~PointIn(p, e)) => StateAt(cells, p) = ALIVE

\* ---------------------------------------------------------------------- C6
\* C6: a birth with exactly 4 ALIVE neighbours touches only the first ALIVE
\* neighbour: every pair created for the born cell has that neighbour as its
\* partner, and an ALIVE neighbour that is the first ALIVE neighbour of no
\* born cell is not in SUPERPOSITION after the iterate.
C6_OnlyFirstNeighbour ==
    LastIterate =>
        \A p \in BornWithFour :
            /\ \A e \in NewPairs : e[1] = p => e[2] = FirstAlive(prev_cells, p)
            /\ \A i \in 1..8 :
                   LET n == get_neighbours(prev_cells, p.x, p.y)[i]
                   IN  ( /\ n.state = ALIVE
                         /\ \A q \in BornWithFour :
                                Wrap(FirstAlive(prev_cells, q)) # Wrap(n.point) )
                       => StateAt(cells, n.point) # SUPERPOSITION

\* ---------------------------------------------------------------------- C7
\* C7: a cell that was ALIVE with 0, 1, 6, 7 or 8 ALIVE neighbours before an
\* iterate is DEAD after it.
C7_DeathRule ==
    LastIterate =>
        \A p \in Coords :
            ( /\ StateAt(prev_cells, p) = ALIVE
              /\ AliveNeighbours(prev_cells, p) \in {0, 1, 6, 7, 8} )
            => StateAt(cells, p) = DEAD

\* ---------------------------------------------------------------------- C8
\* C8: an iterate prints the stability message and sets config.max_iter to 0
\* exactly when the array it leaves equals the array it read (otherwise
\* max_iter keeps its value), so a changed array is always committed; an
\* all-DEAD grid is all-DEAD after the iterate with the signal raised.
C8_StabilitySignal ==
    LastIterate =>
        /\ printed <=> (cells = prev_cells)
        /\ max_iter = (IF cells = prev_cells THEN 0 ELSE prev_max_iter)
        /\ AllDead(prev_cells) => (AllDead(cells) /\ printed /\ max_iter = 0)

C8_Witness ==
    /\ LastIterate
    /\ AllDead(prev_cells) /\ AllDead(cells)
    /\ printed /\ max_iter = 0 /\ prev_max_iter # 0
    /\ width * height > 1

\* ---------------------------------------------------------------------- C9
\* C9: on a grid of at least 3 by 3 with no pairs and exactly 4 ALIVE cells,
\* a DEAD cell that has all 4 as neighbours is in SUPERPOSITION after one
\* iterate, so is its first ALIVE neighbour, and exactly one pair contains it.
C9_BirthScenario ==
    ( /\ LastIterate
      /\ prev_entangled = <<>>
      /\ width >= 3 /\ height >= 3
      /\ Cardinality({q \in Coords : StateAt(prev_cells, q) = ALIVE}) = 4 )
    => \A p \in BornWithFour :
           /\ StateAt(cells, p) = SUPERPOSITION
           /\ StateAt(cells, FirstAlive(prev_cells, p)) = SUPERPOSITION
           /\ Cardinality({i \in 1..Len(entangled) :
                              Wrap(entangled[i][1]) = p \/ Wrap(entangled[i][2]) = p}) = 1

\* --------------------------------------------------------------------- C10
\* C10: link(a, b) appends exactly <<a, b>> when a # b and neither Point is a
\* member of a pair of the list, leaves the list unchanged otherwise, and
\* never changes the cell array.
C10_LinkFrame ==
    last_op.op = "link" =>
        LET a == last_op.a
            b == last_op.b
            free == \A e \in Range(prev_entangled) : ~PointIn(a, e) /\ ~PointIn(b, e)
        IN  /\ (a # b /\ free) => entangled = prev_entangled \o << <<a, b>> >>
            /\ ~(a # b /\ free) => entangled = prev_entangled
            /\ cells = prev_cells

C10_Witness ==
    /\ last_op.op = "link"
    /\ Len(prev_entangled) >= 1
    /\ entangled = prev_entangled \o << <<last_op.a, last_op.b>> >>

\* --------------------------------------------------------------------- C11
\* C11: in every state of a constructed engine, after any iterate, set, link
\* and unlink calls, the cell array has exactly height rows, every row has
\* exactly width cells, and every cell is DEAD, ALIVE or in SUPERPOSITION.
C11_Shape ==
    pc = "ready" =>
        /\ DOMAIN cells = 1..height
        /\ \A r \in 1..height :
               /\ DOMAIN cells[r] = 1..width
               /\ \A c \in 1..width : cells[r][c] \in CellState

C11_Witness ==
    /\ pc = "ready"
    /\ steps = MaxSteps
    /\ last_op.op = "set"
    /\ last_op.k # 0
    /\ cells # prev_cells
    /\ width > height /\ height > 1

\* --------------------------------------------------------------------- C12
\* C12: indexed access wraps on both axes. Reading (x + k * width,
\* y + k * height) returns what reading (x, y) returns, for x and y inside
\* and one step outside the grid and k negative, zero or positive, and for
\* (x, y) inside the grid that is row y, column x of the array. After a set
\* at (x + k * width, y + k * height) the cell at row y, column x holds the
\* value and every other cell holds what it held before.
C12_Wraps ==
    pc = "ready" =>
        /\ \A x \in (0 - 1)..width, y \in (0 - 1)..height, k \in (0 - MaxTurns)..MaxTurns :
               GetItem(cells, y + k * height, x + k * width) = GetItem(cells, y, x)
        /\ \A p \in Coords, k \in (0 - MaxTurns)..MaxTurns :
               GetItem(cells, p.y + k * height, p.x + k * width) = cells[p.y + 1][p.x + 1]
        /\ last_op.op = "set" =>
               \A p \in Coords :
                   cells[p.y + 1][p.x + 1] =
                       IF p = last_op.a THEN last_op.value
                       ELSE prev_cells[p.y + 1][p.x + 1]

C12_Witness ==
    /\ pc = "ready"
    /\ last_op.op = "set"
    /\ last_op.k < 0
    /\ last_op.a = Point(width - 1, height - 1)
    /\ width > 1 /\ height > 1
    /\ cells # prev_cells
    /\ cells[height][width] = last_op.value

\* --------------------------------------------------------------------- C13
\* C13: the constructor raises, and no engine is built, for every call in
\* which the width or the height (the argument when one is passed, the
\* Config's otherwise) is 0 or less, or the array passed as cells, the empty
\* list included, has a number of rows other than that height or a row of a
\* length other than that width.
C13_RejectsInvalid ==
    (pc \in {"ready", "failed"} /\ args # NoArgs /\ args.config # None) =>
        LET w == IF args.width # None THEN args.width[1] ELSE args.config[1].width
            h == IF args.height # None THEN args.height[1] ELSE args.config[1].height
            supplied == args.cells # None
            invalid ==
                \/ w <= 0
                \/ h <= 0
                \/ supplied /\ Len(args.cells[1]) # h
                \/ supplied /\ \E r \in 1..Len(args.cells[1]) : Len(args.cells[1][r]) # w
        IN  invalid => (pc = "failed" /\ raised # "")

\* --------------------------------------------------------------------- C14
\* C14: a cell that was DEAD before an iterate is ALIVE after it when it had
\* exactly 3 ALIVE neighbours before it, and DEAD after it when the number
\* of its ALIVE neighbours before it was neither 3 nor 4, whatever the pass
\* wrote to its neighbours before visiting it.
C14_SynchronousBirth ==
    LastIterate =>
        \A p \in Coords :
            StateAt(prev_cells, p) = DEAD =>
                /\ AliveNeighbours(prev_cells, p) = 3 => StateAt(cells, p) = ALIVE
                /\ AliveNeighbours(prev_cells, p) \notin {3, 4} => StateAt(cells, p) = DEAD

\* a birth with 3 ALIVE neighbours one of which, visited earlier in the
\* pass, is no longer ALIVE
C14_Witness ==
    /\ LastIterate
    /\ \E p \in Coords :
          /\ StateAt(prev_cells, p) = DEAD
          /\ AliveNeighbours(prev_cells, p) = 3
          /\ StateAt(cells, p) = ALIVE
          /\ \E q \in NeighbourCells(p) :
                /\ Before(q, p)
                /\ StateAt(prev_cells, q) = ALIVE
                /\ StateAt(cells, q) # ALIVE

\* --------------------------------------------------------------------- C15
\* C15: a cell that was in SUPERPOSITION with at least one ALIVE neighbour
\* before an iterate is ALIVE or DEAD after it, in a pair or not, whatever
\* the pass wrote for other cells.
C15_Collapses ==
    LastIterate =>
        \A p \in Coords :
            Collapsing(prev_cells, p) => StateAt(cells, p) \in {ALIVE, DEAD}

\* both cells of a pair collapse in one pass, each written by the other
C15_Witness ==
    /\ LastIterate
    /\ \E e \in Range(prev_entangled) :
          /\ Wrap(e[1]) # Wrap(e[2])
          /\ e[1] \in Coords
          /\ e[2] \in Coords
          /\ Collapsing(prev_cells, e[1])
          /\ Collapsing(prev_cells, e[2])
          /\ StateAt(cells, e[1]) \in {ALIVE, DEAD}
          /\ StateAt(cells, e[2]) \in {ALIVE, DEAD}
    /\ \E p \in Coords :
          /\ Collapsing(prev_cells, p)
          /\ \A e \in Range(prev_entangled) : Wrap(e[1]) # p /\ Wrap(e[2]) # p

\* --------------------------------------------------------------------- C16
\* C16: a cell that was in SUPERPOSITION with no ALIVE neighbour before an
\* iterate, none of whose pair partners collapsed in that iterate (was in
\* SUPERPOSITION with an ALIVE neighbour), is in SUPERPOSITION after it, and
\* every pair that had it as a member is still in the list.
C16_Undisturbed ==
    LastIterate =>
        \A p \in Coords :
            ( /\ StateAt(prev_cells, p) = SUPERPOSITION
              /\ AliveNeighbours(prev_cells, p) = 0
              /\ \A e \in PairsOf(prev_entangled, p) :
                     \A q \in Partners(e, p) : ~Collapsing(prev_cells, q) )
            => /\ StateAt(cells, p) = SUPERPOSITION
               /\ \A e \in PairsOf(prev_entangled, p) : e \in Range(entangled)

\* such a cell in a pair, in a pass that changed other cells
C16_Witness ==
    /\ LastIterate
    /\ cells # prev_cells
    /\ \E p \in Coords :
          /\ StateAt(prev_cells, p) = SUPERPOSITION
          /\ AliveNeighbours(prev_cells, p) = 0
          /\ PairsOf(prev_entangled, p) # {}
          /\ \A e \in PairsOf(prev_entangled, p) :
                 /\ p \notin Partners(e, p)
                 /\ \A q \in Partners(e, p) : ~Collapsing(prev_cells, q)
          /\ StateAt(cells, p) = SUPERPOSITION
          /\ PairsOf(entangled, p) = PairsOf(prev_entangled, p)

\* --------------------------------------------------------------------- C17
\* C17: in loop, once an iterate has printed the stability message the next
\* step of the loop is its return: iterate is not called again and the cell
\* array is not changed, whatever config.max_iter was when loop was called,
\* -1 included.
C17_LoopStops ==
    [][(pc = "loop" /\ printed) =>
           /\ pc' = "returned"
           /\ steps' = steps
           /\ cells' = cells
           /\ iterations' = iterations]_vars

\* loop returned after its second or a later iterate raised the signal,
\* with max_iter still -1 before that iterate
C17_Witness ==
    /\ pc = "returned"
    /\ printed
    /\ prev_max_iter = -1
    /\ max_iter = 0
    /\ iterations >= 2
    /\ iterations < MaxLoopSteps

\* --------------------------------------------------------------------- C18
\* C18: an iterate that leaves the cell array unchanged leaves the entangled
\* list unchanged, and an iterate that follows such an iterate leaves both
\* unchanged, for every outcome of the draws.
C18_Absorbing ==
    [][last_op'.op = "iterate" =>
           /\ cells' = cells => entangled' = entangled
           /\ (LastIterate /\ cells = prev_cells) =>
                  (cells' = cells /\ entangled' = entangled)]_vars

\* a second iterate on a fixed point that has a cell in SUPERPOSITION
C18_Witness ==
    /\ LastIterate
    /\ steps = MaxSteps
    /\ calls = 0
    /\ prev_max_iter = 0
    /\ cells = prev_cells
    /\ entangled = prev_entangled
    /\ \E p \in Coords : StateAt(cells, p) = SUPERPOSITION
    /\ width * height > 1

\* --------------------------------------------------------------------- C19
\* C19: in every state reached by iterate calls alone from a grid with no
\* pairs, both members of every pair of the list are cells in SUPERPOSITION.
C19_PairsSuperposed ==
    calls = 0 =>
        \A e \in Range(entangled) :
            /\ StateAt(cells, e[1]) = SUPERPOSITION
            /\ StateAt(cells, e[2]) = SUPERPOSITION

\* --------------------------------------------------------------------- C20
\* C20: the two members of every pair that an iterate adds to the list
\* denote different grid cells once their coordinates are taken modulo
\* width and height, on grids of width or height 1 or 2 as on larger ones.
C20_NoSelfPair ==
    LastIterate =>
        \A e \in NewPairs : Wrap(e[1]) # Wrap(e[2])

\* an iterate on a grid of width or height 2 adds a pair whose second
\* member lies outside the grid and wraps onto a cell of the born cell's
\* row or column
C20_Witness ==
    /\ LastIterate
    /\ width = 2 \/ height = 2
    /\ \E e \in NewPairs :
          /\ e[2] \notin Coords
          /\ Wrap(e[2]).x = e[1].x \/ Wrap(e[2]).y = e[1].y
          /\ Wrap(e[1]) # Wrap(e[2])

====
